---- MODULE Spec2Model ----
(***************************************************************************)
(* Document scanner: OCR tokens -> rule-based label/value extraction ->    *)
(* confidence gate -> mandatory review/edit/confirm loop -> save.          *)
(*                                                                         *)
(* Text is a TLA+ string; a character is a string of length 1.  The Python *)
(* string methods the code calls (strip, lower, upper, isupper, endswith,  *)
(* the substring test `in`, and the regular expressions of the validators) *)
(* are computed character by character.                                    *)
(***************************************************************************)
EXTENDS Integers, Sequences, FiniteSets, TLC

(***************************************************************************)
(* Python str primitives                                                   *)
(***************************************************************************)
UpperLetters == "ABCDEFGHIJKLMNOPQRSTUVWXYZ"
LowerLetters == "abcdefghijklmnopqrstuvwxyz"
DigitChars == "0123456789"

CharAt(s, i) == SubSeq(s, i, i)

CharsOf(s) == { CharAt(s, i) : i \in 1..Len(s) }

UpperSet == CharsOf(UpperLetters)
LowerSet == CharsOf(LowerLetters)
DigitSet == CharsOf(DigitChars)
AlphaSet == UpperSet \cup LowerSet
\* the characters matched by \s that the modelled inputs can contain
SpaceSet == {" ", "\t"}

IndexIn(c, alphabet) == CHOOSE i \in 1..Len(alphabet) : CharAt(alphabet, i) = c

\* str.lower() / str.upper() on one character
LowerChar(c) == IF c \in UpperSet THEN CharAt(LowerLetters, IndexIn(c, UpperLetters)) ELSE c
UpperChar(c) == IF c \in LowerSet THEN CharAt(UpperLetters, IndexIn(c, LowerLetters)) ELSE c

RECURSIVE Lower(_)
Lower(s) == IF s = "" THEN "" ELSE LowerChar(Head(s)) \o Lower(Tail(s))

RECURSIVE Upper(_)
Upper(s) == IF s = "" THEN "" ELSE UpperChar(Head(s)) \o Upper(Tail(s))

\* str.isupper(): at least one cased character and no lower-case character
IsUpper(s) ==
    /\ \E i \in 1..Len(s) : CharAt(s, i) \in UpperSet
    /\ \A i \in 1..Len(s) : CharAt(s, i) \notin LowerSet

\* str.strip()
RECURSIVE LStrip(_)
LStrip(s) == IF s # "" /\ Head(s) \in SpaceSet THEN LStrip(Tail(s)) ELSE s

RECURSIVE RStrip(_)
RStrip(s) ==
    IF s # "" /\ CharAt(s, Len(s)) \in SpaceSet
    THEN RStrip(SubSeq(s, 1, Len(s) - 1))
    ELSE s

Strip(s) == RStrip(LStrip(s))

\* str.endswith(suffix)
EndsWith(s, suffix) ==
    /\ Len(s) >= Len(suffix)
    /\ SubSeq(s, Len(s) - Len(suffix) + 1, Len(s)) = suffix

\* the substring test `sub in s`
Contains(sub, s) ==
    \E i \in 1..(Len(s) - Len(sub) + 1) : SubSeq(s, i, i + Len(sub) - 1) = sub

\* every character of s is in the class cls
AllIn(s, cls) == \A i \in 1..Len(s) : CharAt(s, i) \in cls

\* len(re.findall(r'\d', s))
RECURSIVE CountDigits(_)
CountDigits(s) ==
    IF s = "" THEN 0
    ELSE (IF Head(s) \in DigitSet THEN 1 ELSE 0) + CountDigits(Tail(s))

\* str(n) for the small non-negative numbers the edit menu prints
RECURSIVE IntToStr(_)
IntToStr(n) ==
    IF n < 10 THEN CharAt(DigitChars, n + 1)
    ELSE IntToStr(n \div 10) \o CharAt(DigitChars, (n % 10) + 1)

\* int(s) succeeds on a stripped string: an optional sign followed by digits
IsIntLiteral(s) ==
    LET digits == IF s # "" /\ Head(s) \in {"+", "-"} THEN Tail(s) ELSE s
    IN  digits # "" /\ AllIn(digits, DigitSet)

RECURSIVE DigitsToInt(_)
DigitsToInt(s) ==
    IF s = "" THEN 0
    ELSE 10 * DigitsToInt(SubSeq(s, 1, Len(s) - 1)) + (IndexIn(CharAt(s, Len(s)), DigitChars) - 1)

ParseInt(s) ==
    IF Head(s) = "-" THEN 0 - DigitsToInt(Tail(s))
    ELSE IF Head(s) = "+" THEN DigitsToInt(Tail(s))
    ELSE DigitsToInt(s)

\* str.replace(sub, ""): every non-overlapping occurrence, left to right
RECURSIVE RemoveAll(_, _)
RemoveAll(s, sub) ==
    IF Len(s) < Len(sub) THEN s
    ELSE IF SubSeq(s, 1, Len(sub)) = sub THEN RemoveAll(SubSeq(s, Len(sub) + 1, Len(s)), sub)
    ELSE Head(s) \o RemoveAll(Tail(s), sub)

\* the order of str comparison (code points) on the characters that occur
AsciiOrder == "\t %'()+-./0123456789:@ABCDEFGHIJKLMNOPQRSTUVWXYZ_abcdefghijklmnopqrstuvwxyz"

RECURSIVE StrLess(_, _)
StrLess(a, b) ==
    IF b = "" THEN FALSE
    ELSE IF a = "" THEN TRUE
    ELSE IF Head(a) = Head(b) THEN StrLess(Tail(a), Tail(b))
    ELSE IndexIn(Head(a), AsciiOrder) < IndexIn(Head(b), AsciiOrder)

(***************************************************************************)
(* parser_rule_based.py                                                    *)
(***************************************************************************)
\* RuleBasedParser.FIELD_LABELS, in the dict's insertion order
FieldNames ==
    << "Student Name", "Father Name", "Mother Name", "Home Address", "School",
       "Contact", "Email", "Date", "Roll Number", "Marks", "Group", "City",
       "Province" >>

FIELD_LABELS ==
    [ f \in { FieldNames[k] : k \in 1..Len(FieldNames) } |->
        CASE f = "Student Name" -> << "student", "name", "student name", "full name" >>
          [] f = "Father Name"  -> << "father", "father name", "father's name" >>
          [] f = "Mother Name"  -> << "mother", "mother name", "mother's name" >>
          [] f = "Home Address" -> << "address", "home", "home address", "postal address" >>
          [] f = "School"       -> << "school", "institution", "college" >>
          [] f = "Contact"      -> << "contact", "phone", "mobile", "number", "telephone" >>
          [] f = "Email"        -> << "email", "e-mail", "email address" >>
          [] f = "Date"         -> << "date", "dob", "birth" >>
          [] f = "Roll Number"  -> << "roll", "enrollment", "roll number", "id" >>
          [] f = "Marks"        -> << "marks", "score", "points", "percentage" >>
          [] f = "Group"        -> << "group", "class", "section" >>
          [] f = "City"         -> << "city", "town" >>
          [] f = "Province"     -> << "province", "state", "district" >> ]

\* self.all_label_keywords: the union of all keyword lists, lower-cased
all_label_keywords ==
    UNION { { Lower(FIELD_LABELS[f][k]) : k \in 1..Len(FIELD_LABELS[f]) } :
            f \in DOMAIN FIELD_LABELS }

position_threshold == 15
min_horizontal_gap == 120

\* _is_label_text without the length test of line 196
_is_label_text_NoLengthBound(text) ==
    \/ EndsWith(text, ":")
    \/ Lower(text) \in all_label_keywords
    \/ IsUpper(text)

\* RuleBasedParser._is_label_text
_is_label_text(text) ==
    \/ EndsWith(text, ":")
    \/ Lower(text) \in all_label_keywords
    \/ (Len(text) < 15 /\ IsUpper(text))

\* LabelMatch without the call of _is_label_text (line 167 dropped)
LabelMatch_KeywordOnly(i, label_keywords, ocr_data) ==
    \E k \in 1..Len(label_keywords) :
        Contains(label_keywords[k], Lower(ocr_data[i].text))

\* the test of _find_label's loop body on token i: some keyword occurs in the
\* lower-cased text and the text looks like a label
LabelMatch(i, label_keywords, ocr_data) ==
    /\ \E k \in 1..Len(label_keywords) :
          Contains(label_keywords[k], Lower(ocr_data[i].text))
    /\ _is_label_text(ocr_data[i].text)

\* _find_label going on after a match (the return of line 168 replaced by an
\* assignment): the last matching token is the label
_find_label_LastMatch(label_keywords, ocr_data) ==
    LET matches == { i \in 1..Len(ocr_data) : LabelMatch(i, label_keywords, ocr_data) }
    IN  IF matches = {} THEN 0
        ELSE CHOOSE i \in matches : \A j \in matches : j <= i

\* RuleBasedParser._find_label: the scan in index order from token i on; the
\* result is a 1-based index (Python's index + 1), 0 stands for None
RECURSIVE FindLabelFrom(_, _, _)
FindLabelFrom(i, label_keywords, ocr_data) ==
    IF i > Len(ocr_data) THEN 0
    ELSE IF LabelMatch(i, label_keywords, ocr_data) THEN i
    ELSE FindLabelFrom(i + 1, label_keywords, ocr_data)

_find_label(label_keywords, ocr_data) == FindLabelFrom(1, label_keywords, ocr_data)

\* re.search(r'\d{1,4}[-/\.]\d{1,2}[-/\.]\d{1,4}', text)
DateSeparators == {"-", "/", "."}

MatchesDate(text) ==
    \E i \in 1..Len(text), a \in 1..4, b \in 1..2, c \in 1..4 :
        /\ i + a + b + c + 1 <= Len(text)
        /\ AllIn(SubSeq(text, i, i + a - 1), DigitSet)
        /\ CharAt(text, i + a) \in DateSeparators
        /\ AllIn(SubSeq(text, i + a + 1, i + a + b), DigitSet)
        /\ CharAt(text, i + a + b + 1) \in DateSeparators
        /\ AllIn(SubSeq(text, i + a + b + 2, i + a + b + c + 1), DigitSet)

\* _validate_value without the checks of lines 212-218: the category rule is
\* applied to every text
_validate_value_NoPrecheck(text, field_type) ==
    IF Contains("Name", field_type)
        THEN AllIn(text, AlphaSet \cup SpaceSet \cup {"-", "'"}) /\ Len(text) > 2
    ELSE IF \E w \in {"contact", "phone", "mobile", "number"} : Contains(w, Lower(field_type))
        THEN AllIn(text, DigitSet \cup SpaceSet \cup {"-", "+", "(", ")"})
             /\ CountDigits(text) >= 7
    ELSE IF Contains("Email", field_type)
        THEN Contains("@", text) /\ Contains(".", text)
    ELSE IF Contains("Date", field_type) \/ Contains("Birth", field_type)
        THEN MatchesDate(text)
    ELSE IF \/ Contains("Marks", field_type)
            \/ Contains("Score", field_type)
            \/ Contains("Percentage", field_type)
        THEN AllIn(text, DigitSet \cup SpaceSet \cup {".", "%"}) /\ CountDigits(text) >= 1
    ELSE IF \E w \in {"Address", "City", "School", "Group"} : Contains(w, field_type)
        THEN Len(Strip(text)) > 1
    ELSE \E i \in 1..Len(text) : CharAt(text, i) \in AlphaSet \cup DigitSet

\* RuleBasedParser._validate_value: the branches are tried in the code's order
_validate_value(text, field_type) ==
    IF text = "" \/ Strip(text) = "" THEN FALSE
    ELSE IF Len(Strip(text)) < 2 THEN FALSE
    ELSE IF Contains("Name", field_type)
        THEN AllIn(text, AlphaSet \cup SpaceSet \cup {"-", "'"}) /\ Len(text) > 2
    ELSE IF \E w \in {"contact", "phone", "mobile", "number"} : Contains(w, Lower(field_type))
        THEN AllIn(text, DigitSet \cup SpaceSet \cup {"-", "+", "(", ")"})
             /\ CountDigits(text) >= 7
    ELSE IF Contains("Email", field_type)
        THEN Contains("@", text) /\ Contains(".", text)
    ELSE IF Contains("Date", field_type) \/ Contains("Birth", field_type)
        THEN MatchesDate(text)
    ELSE IF \/ Contains("Marks", field_type)
            \/ Contains("Score", field_type)
            \/ Contains("Percentage", field_type)
        THEN AllIn(text, DigitSet \cup SpaceSet \cup {".", "%"}) /\ CountDigits(text) >= 1
    ELSE IF \E w \in {"Address", "City", "School", "Group"} : Contains(w, field_type)
        THEN Len(Strip(text)) > 1
    ELSE \E i \in 1..Len(text) : CharAt(text, i) \in AlphaSet \cup DigitSet

Abs(n) == IF n < 0 THEN -n ELSE n

\* ValueCandidate without the label test (lines 131-133 dropped)
ValueCandidate_NoLabelTest(i, label_index, field_name, ocr_data) ==
    /\ i # label_index
    /\ ~(Abs(ocr_data[i].top - ocr_data[label_index].top) > position_threshold)
    /\ ~(ocr_data[i].left <
            (ocr_data[label_index].left + ocr_data[label_index].width) + min_horizontal_gap)
    /\ _validate_value(ocr_data[i].text, field_name)

\* ValueCandidate measuring the gap from the label's left edge (label_left for
\* label_right in line 128)
ValueCandidate_GapFromLeft(i, label_index, field_name, ocr_data) ==
    /\ i # label_index
    /\ ~(Abs(ocr_data[i].top - ocr_data[label_index].top) > position_threshold)
    /\ ~(ocr_data[i].left < ocr_data[label_index].left + min_horizontal_gap)
    /\ ~_is_label_text(ocr_data[i].text)
    /\ _validate_value(ocr_data[i].text, field_name)

\* ValueCandidate without the call of the validator (lines 135-136 dropped)
ValueCandidate_NoValidator(i, label_index, field_name, ocr_data) ==
    /\ i # label_index
    /\ ~(Abs(ocr_data[i].top - ocr_data[label_index].top) > position_threshold)
    /\ ~(ocr_data[i].left <
            (ocr_data[label_index].left + ocr_data[label_index].width) + min_horizontal_gap)
    /\ ~_is_label_text(ocr_data[i].text)

\* _find_field_value, the body of the candidate loop: token i is taken as the
\* value iff none of the four `continue` tests fires and the validator accepts
ValueCandidate(i, label_index, field_name, ocr_data) ==
    /\ i # label_index
    /\ ~(Abs(ocr_data[i].top - ocr_data[label_index].top) > position_threshold)
    /\ ~(ocr_data[i].left <
            (ocr_data[label_index].left + ocr_data[label_index].width) + min_horizontal_gap)
    /\ ~_is_label_text(ocr_data[i].text)
    /\ _validate_value(ocr_data[i].text, field_name)

\* the candidate loop without its break (line 139): the last candidate wins
RECURSIVE FindValueFrom_NoBreak(_, _, _, _)
FindValueFrom_NoBreak(i, label_index, field_name, ocr_data) ==
    IF i > Len(ocr_data) THEN 0
    ELSE LET later == FindValueFrom_NoBreak(i + 1, label_index, field_name, ocr_data)
         IN  IF later # 0 THEN later
             ELSE IF ValueCandidate(i, label_index, field_name, ocr_data) THEN i
             ELSE 0

\* _find_field_value, the candidate loop: the first i (in index order) that is
\* taken, where the loop breaks; 0 when the loop runs to the end
RECURSIVE FindValueFrom(_, _, _, _)
FindValueFrom(i, label_index, field_name, ocr_data) ==
    IF i > Len(ocr_data) THEN 0
    ELSE IF ValueCandidate(i, label_index, field_name, ocr_data) THEN i
    ELSE FindValueFrom(i + 1, label_index, field_name, ocr_data)

\* the index of the token _find_field_value takes the value from; 0 when it
\* returns None (no label, or no candidate)
ValueIndex(field_name, label_keywords, ocr_data) ==
    LET label_index == _find_label(label_keywords, ocr_data)
    IN  IF label_index = 0 THEN 0
        ELSE FindValueFrom(1, label_index, field_name, ocr_data)

None == [none |-> TRUE]

\* RuleBasedParser._find_field_value
_find_field_value(field_name, label_keywords, ocr_data) ==
    LET i == ValueIndex(field_name, label_keywords, ocr_data)
    IN  IF i = 0 THEN None
        ELSE [value |-> ocr_data[i].text, confidence |-> ocr_data[i].confidence]

\* parse recording a field as soon as its label is located, with an empty
\* value when _find_field_value returns None (the test of line 82 on the label)
parse_LabelOnly(ocr_data) ==
    IF Len(ocr_data) = 0 THEN << >>
    ELSE LET found == { f \in DOMAIN FIELD_LABELS :
                          _find_label(FIELD_LABELS[f], ocr_data) # 0 }
         IN  [ f \in found |->
                 IF _find_field_value(f, FIELD_LABELS[f], ocr_data) # None
                 THEN _find_field_value(f, FIELD_LABELS[f], ocr_data)
                 ELSE [value |-> "", confidence |-> 0] ]

\* RuleBasedParser.parse: the map of the fields whose _find_field_value is not None
parse(ocr_data) ==
    IF Len(ocr_data) = 0 THEN << >>
    ELSE LET found == { f \in DOMAIN FIELD_LABELS :
                          _find_field_value(f, FIELD_LABELS[f], ocr_data) # None }
         IN  [ f \in found |-> _find_field_value(f, FIELD_LABELS[f], ocr_data) ]

(***************************************************************************)
(* ocr.py                                                                  *)
(***************************************************************************)
\* One detection [bbox, text, conf] of the reader: bbox is four corner points
\* and conf a float, written here in thousandths (950 is 0.95, 95000 is 95.0).
Box(l, t, w, h) == << <<l, t>>, <<l + w, t>>, <<l + w, t + h>>, <<l, t + h>> >>

Det(text, l, t, w, h, milli) == [bbox |-> Box(l, t, w, h), text |-> text, conf |-> milli]

MinOf(S) == CHOOSE m \in S : \A n \in S : m <= n
MaxOf(S) == CHOOSE m \in S : \A n \in S : m >= n

\* Detection with the product of line 101 cut off at 100
Detection_Clamped(r) ==
    LET xs == { r.bbox[k][1] : k \in 1..4 }
        ys == { r.bbox[k][2] : k \in 1..4 }
        c  == (r.conf * 100) \div 1000
    IN  [ text       |-> Strip(r.text),
          left       |-> MinOf(xs),
          top        |-> MinOf(ys),
          width      |-> MaxOf(xs) - MinOf(xs),
          height     |-> MaxOf(ys) - MinOf(ys),
          confidence |-> IF c > 100 THEN 100 ELSE c ]

\* extract_ocr_data, the body of the first loop: one detection to one record.
\* int(conf * 100) is the floor for the non-negative conf of a detection.
Detection(r) ==
    LET xs == { r.bbox[k][1] : k \in 1..4 }
        ys == { r.bbox[k][2] : k \in 1..4 }
    IN  [ text       |-> Strip(r.text),
          left       |-> MinOf(xs),
          top        |-> MinOf(ys),
          width      |-> MaxOf(xs) - MinOf(xs),
          height     |-> MaxOf(ys) - MinOf(ys),
          confidence |-> (r.conf * 100) \div 1000 ]

\* the sort key of all_detections.sort: (top, left), compared as tuples
KeyLessEq(a, b) == a.top < b.top \/ (a.top = b.top /\ a.left <= b.left)

\* list.sort is stable: d goes after every element whose key is <= its own
RECURSIVE InsertSorted(_, _)
InsertSorted(sorted, d) ==
    IF sorted = << >> THEN << d >>
    ELSE IF KeyLessEq(sorted[Len(sorted)], d) THEN Append(sorted, d)
    ELSE Append(InsertSorted(SubSeq(sorted, 1, Len(sorted) - 1), d), sorted[Len(sorted)])

RECURSIVE SortDetections(_)
SortDetections(ds) ==
    IF ds = << >> THEN << >>
    ELSE InsertSorted(SortDetections(SubSeq(ds, 1, Len(ds) - 1)), ds[Len(ds)])

\* KeepDetection without the confidence test of line 118
KeepDetection_AnyConfidence(d) == d.text # ""

\* the filter of the second loop
KeepDetection(d) == d.confidence > 0 /\ d.text # ""

\* OCRExtractor.extract_ocr_data on the reader's results.  ocr_data is kept as
\* one sequence of records, the code's six parallel lists read row by row;
\* its raw_data entry, which nothing reads, is left out.
extract_ocr_data(results) ==
    SelectSeq(SortDetections([ k \in 1..Len(results) |-> Detection(results[k]) ]),
              KeepDetection)

RECURSIVE SumConfidence(_)
SumConfidence(ocr_data) ==
    IF ocr_data = << >> THEN 0
    ELSE ocr_data[1].confidence + SumConfidence(Tail(ocr_data))

\* OCRExtractor.get_average_confidence: the mean as the exact fraction num/den
\* (0 for no data)
get_average_confidence(ocr_data) ==
    IF Len(ocr_data) = 0 THEN [num |-> 0, den |-> 1]
    ELSE [num |-> SumConfidence(ocr_data), den |-> Len(ocr_data)]

(***************************************************************************)
(* config.py, main.py: the quality gate                                    *)
(***************************************************************************)
OCR_CONFIDENCE_THRESHOLD == 60

\* the gate with <= for < (a mean equal to the threshold rejected)
GateRejects_AtThreshold(avg_confidence, threshold) ==
    avg_confidence.num <= threshold * avg_confidence.den

\* main.py line 178: avg_confidence < threshold, on the fraction
GateRejects(avg_confidence, threshold) ==
    avg_confidence.num < threshold * avg_confidence.den

(***************************************************************************)
(* review.py: helpers of the review prompts                                *)
(***************************************************************************)
\* the position of a field name in FIELD_LABELS, the order in which parse
\* inserts the fields into its dict
CatalogIndex(f) == CHOOSE k \in 1..Len(FieldNames) : FieldNames[k] = f

\* SortedFields without the sort: the items in the dict's insertion order
SortedFields_InsertionOrder(data) ==
    LET names == DOMAIN data
    IN  [ k \in 1..Cardinality(names) |->
            CHOOSE f \in names :
                Cardinality({ g \in names : CatalogIndex(g) < CatalogIndex(f) }) = k - 1 ]

\* sorted(updated_data.items()): the field names in str order, 1-based
SortedFields(data) ==
    LET names == DOMAIN data
    IN  [ k \in 1..Cardinality(names) |->
            CHOOSE f \in names : Cardinality({ g \in names : StrLess(g, f) }) = k - 1 ]

\* confidence_indicator with > for >= in line 42
confidence_indicator_StrictHigh(confidence) ==
    IF confidence > 80 THEN "HIGH"
    ELSE IF confidence >= 60 THEN "MEDIUM"
    ELSE "LOW"

\* display_fields_for_review, lines 42-50: the confidence level printed
confidence_indicator(confidence) ==
    IF confidence >= 80 THEN "HIGH"
    ELSE IF confidence >= 60 THEN "MEDIUM"
    ELSE "LOW"

\* display_fields_for_review: the rows printed, one per field in sorted order;
\* the function reads the map and returns nothing
display_fields_for_review(data) ==
    [ k \in 1..Len(SortedFields(data)) |->
        LET name == SortedFields(data)[k]
        IN  [ idx                  |-> k,
              field_name           |-> name,
              value                |-> data[name].value,
              confidence           |-> data[name].confidence,
              confidence_indicator |-> confidence_indicator(data[name].confidence) ] ]

\* EditField without the write of line 137 (the confidence kept)
EditField_KeepConfidence(data, name, value) ==
    [ data EXCEPT ![name] = [ @ EXCEPT !.value = value ] ]

\* get_field_edits, lines 135-137: the writes to the field's record
EditField(data, name, value) ==
    [ data EXCEPT ![name] = [ @ EXCEPT !.value = value, !.confidence = 100 ] ]

\* DataSaver.save, lines 50-60: the writer the format is dispatched to; the
\* writers report whether the file was written, the unknown branch returns False
save(format_type) ==
    LET f == Strip(Lower(format_type))
    IN  IF f = "excel" THEN "_save_excel"
        ELSE IF f = "json" THEN "_save_json"
        ELSE IF f = "csv" THEN "_save_csv"
        ELSE "unknown"

\* get_output_filename: the name returned for the stripped input
OutputFilenameFor(custom_name, default_name) ==
    LET cleaned == Strip(RemoveAll(RemoveAll(RemoveAll(custom_name, ".xlsx"), ".json"), ".csv"))
    IN  IF custom_name # "" /\ cleaned # "" THEN cleaned ELSE default_name

(***************************************************************************)
(* The environment: what the recognizer can return and what the operator   *)
(* can type.                                                               *)
(***************************************************************************)
\* the most detections in one of the images enumerated from Pool
MaxFragments == 3

\* The detections an image can hold, in the order the reader reports them.
\* Label right edge + gap: "Name:" 75+55+120 = 250, "Student" 10+60+120 = 190,
\* "Contact:" 75+80+120 = 275, "Father Name:" 75+95+120 = 290.  Every conf is one for which the float product
\* conf * 100 truncates to the exact floor.  The conf of "Ray" is a percentage
\* (95.0), as a reader reporting on the 0-100 scale gives it.
Pool ==
    << Det(" John",       400, 12, 60, 20, 950),
       Det("Name:",        75, 10, 55, 20, 880),
       Det("Student",      10, 10, 60, 20, 900),
       Det("Doe",         470, 12, 50, 20, 930),
       Det("JOHN",        250, 10, 60, 20, 910),
       Det("Al",          300, 10, 30, 20, 850),
       Det("Omar",        250, 10, 60, 20, 840),
       Det("Mary",        249, 10, 60, 20, 800),
       Det("Eve",         400, 25, 50, 20, 750),
       Det("Ann",         400, 26, 50, 20, 700),
       Det("Nameless",     10,  5, 80, 20, 600),
       Det("Contact:",     75, 40, 80, 20, 300),
       Det("555-12",      400, 40, 70, 20, 700),
       Det("5551234567",  480, 42, 90, 20, 200),
       Det("   ",           5,  5, 10, 20, 990),
       Det("Zed",         500, 12, 40, 20,   4),
       Det("Ray",         520, 60, 40, 20, 95000),
       Det("Father Name:", 75, 10, 95, 20, 870) >>

\* the detections of Pool at the indices I, in Pool's order
RECURSIVE SubPool(_, _)
SubPool(I, k) ==
    IF k > Len(Pool) THEN << >>
    ELSE (IF k \in I THEN << Pool[k] >> ELSE << >>) \o SubPool(I, k + 1)

\* the image of a form's first line: "Student" "Name:" "John" "Doe"
ExampleResults == SubPool({ 1, 2, 3, 4 }, 1)

\* images of single form lines, one per category of validator: a marks line
\* with a one-character and a longer candidate, a roll-number and a province
\* line, an e-mail and a date line, a school line whose value is upper-case
\* and 16 characters long.  Three values are read with confidence 0.60, 0.59
\* and 0.79.
MarksLine ==
    << Det("Marks:",  75, 70, 60, 20, 900),
       Det("7",      400, 70, 15, 20, 900),
       Det("85%",    450, 71, 40, 20, 600) >>

RollLines ==
    << Det("Roll No:",   75, 100, 80, 20, 900),
       Det("Ab-17",     400, 100, 50, 20, 900),
       Det("Province:",  75, 130, 90, 20, 900),
       Det("Sindh",     400, 130, 50, 20, 590) >>

MailLines ==
    << Det("Email:",    75, 160, 60, 20, 900),
       Det("a@b.co",   400, 160, 60, 20, 790),
       Det("Date:",     75, 190, 50, 20, 900),
       Det("1-2-2000", 400, 190, 80, 20, 900) >>

SchoolLine ==
    << Det("School:",           75, 220,  70, 20, 900),
       Det("GOVT HIGH SCHOOL", 400, 220, 150, 20, 900) >>

FormImages == { MarksLine, RollLines, MailLines, SchoolLine }

RawResults ==
    { SubPool(I, 1) : I \in { J \in SUBSET (1..Len(Pool)) : Cardinality(J) <= MaxFragments } }
        \cup { ExampleResults } \cup FormImages

MenuInputs == { "1", " 2", "3", "x" }
YesNoInputs == { "y", " Y ", "n", "" }
ConfirmInputs == { "A", " a ", "e", "C", "", "s" }
EditSelectInputs == { "done", " DONE", "1", "2", "3", "0", "-1", "x" }
NewValueInputs == { "", "  ", " Ali " }
FormatInputs == { "1", "2", "3", "0", "9" }
FilenameInputs == { "", "form.json" }

(***************************************************************************)
(* main.py: DocumentScannerPipeline.run and run_complete_pipeline          *)
(***************************************************************************)
VARIABLES
    pc,              \* where the application is
    input_method,    \* run: the menu's answer
    ocr_data,        \* run_complete_pipeline: the tokens
    raw_data,        \* extract_ocr_data: the reader's results, kept with the tokens
    extracted_data,  \* run_complete_pipeline: the field map under review
    updated_data,    \* get_field_edits: the copied map
    user_choice,     \* run_complete_pipeline: the last review decision
    phase,           \* the review session's phase (the position in the loop)
    choice,          \* the prompt functions: the last input that was refused
    field_name,      \* get_field_edits: the field selected last
    new_value,       \* get_field_edits: the replacement typed last
    output_format,   \* run_complete_pipeline
    filename,        \* run_complete_pipeline
    success,         \* run: the value run_complete_pipeline returned
    answer           \* the line input() returned last, since the last call of
                     \* run_complete_pipeline began

vars ==
    << pc, input_method, ocr_data, raw_data, extracted_data, updated_data, user_choice,
       phase, choice, field_name, new_value, output_format, filename, success, answer >>

\* no input has been read (or refused) yet
NoInput == "<none>"

Init ==
    /\ pc = "menu"
    /\ input_method = "None"
    /\ ocr_data = << >>
    /\ raw_data = << >>
    /\ extracted_data = << >>
    /\ updated_data = << >>
    /\ user_choice = "None"
    /\ phase = "None"
    /\ choice = NoInput
    /\ field_name = "None"
    /\ new_value = NoInput
    /\ output_format = "None"
    /\ filename = "None"
    /\ success = "None"
    /\ answer = NoInput

\* run_complete_pipeline returns result to run (lines 293-303): its locals are
\* gone; run asks for another scan after True and loops to the menu after False
Return(result) ==
    /\ success' = result
    /\ pc' = IF result = "True" THEN "another" ELSE "menu"
    /\ ocr_data' = << >>
    /\ raw_data' = << >>
    /\ extracted_data' = << >>
    /\ updated_data' = << >>
    /\ choice' = NoInput
    /\ field_name' = "None"
    /\ new_value' = NoInput
    /\ output_format' = "None"
    /\ filename' = "None"

\* show_input_menu
ShowInputMenu ==
    /\ pc = "menu"
    /\ \E raw \in MenuInputs :
         /\ answer' = raw
         /\ LET c == Strip(raw)
            IN  IF c = "1" THEN pc' = "acquire" /\ input_method' = "camera" /\ choice' = NoInput
             ELSE IF c = "2" THEN pc' = "acquire" /\ input_method' = "upload" /\ choice' = NoInput
             ELSE IF c = "3" THEN pc' = "exited" /\ input_method' = "None" /\ choice' = NoInput
             ELSE pc' = "menu" /\ input_method' = input_method /\ choice' = c
    /\ UNCHANGED << ocr_data, raw_data, extracted_data, updated_data, user_choice, phase,
                    field_name, new_value, output_format, filename, success >>

\* run, lines 283-293: capture_from_camera / upload_from_file give a frame or
\* None; with a frame run_complete_pipeline is called
Acquire ==
    /\ pc = "acquire"
    /\ \E frame \in { "None", "image" } :
         IF frame = "None"
         THEN pc' = "menu" /\ UNCHANGED << user_choice, phase, success, answer >>
         ELSE pc' = "preprocess" /\ user_choice' = "None" /\ phase' = "None"
              /\ success' = "None" /\ answer' = NoInput
    /\ input_method' = "None"
    /\ UNCHANGED << ocr_data, raw_data, extracted_data, updated_data, choice, field_name,
                    new_value, output_format, filename >>

\* run_complete_pipeline, step 1
Preprocess ==
    /\ pc = "preprocess"
    /\ \E processed \in { "None", "image" } :
         IF processed = "None"
         THEN Return("False")
         ELSE pc' = "ocr"
              /\ UNCHANGED << ocr_data, raw_data, extracted_data, updated_data, choice, field_name,
                              new_value, output_format, filename, success >>
    /\ UNCHANGED << input_method, user_choice, phase, answer >>

\* run_complete_pipeline, step 2
OcrExtract ==
    /\ pc = "ocr"
    /\ \E results \in RawResults :
         LET data == extract_ocr_data(results)
         IN  IF Len(data) = 0
             THEN Return("False")
             ELSE pc' = "gate" /\ ocr_data' = data /\ raw_data' = results
                  /\ UNCHANGED << extracted_data, updated_data, choice, field_name,
                                  new_value, output_format, filename, success >>
    /\ UNCHANGED << input_method, user_choice, phase, answer >>

\* run_complete_pipeline, step 3: lines 174-178
QualityCheck ==
    /\ pc = "gate"
    /\ pc' = IF GateRejects(get_average_confidence(ocr_data), OCR_CONFIDENCE_THRESHOLD)
             THEN "retry_prompt" ELSE "parse"
    /\ UNCHANGED << input_method, ocr_data, raw_data, extracted_data, updated_data,
                    user_choice, phase, choice, field_name, new_value, output_format,
                    filename, success, answer >>

\* RetryPrompt with the answer y going on to extraction on the same tokens
RetryPrompt_SameTokens ==
    /\ pc = "retry_prompt"
    /\ \E raw \in YesNoInputs :
         /\ answer' = raw
         /\ LET retry == Lower(Strip(raw))
            IN  IF retry = "y"
             THEN pc' = "parse"
                  /\ UNCHANGED << ocr_data, raw_data, extracted_data, updated_data, choice,
                                  field_name, new_value, output_format, filename,
                                  success >>
             ELSE Return("False")
    /\ UNCHANGED << input_method, user_choice, phase >>

\* lines 188-194: both answers return False
RetryPrompt ==
    /\ pc = "retry_prompt"
    /\ \E raw \in YesNoInputs :
         /\ answer' = raw
         /\ LET retry == Lower(Strip(raw))
            IN  IF retry = "y" THEN Return("False") ELSE Return("False")
    /\ UNCHANGED << input_method, user_choice, phase >>

\* step 4, lines 206-215
Parse ==
    /\ pc = "parse"
    /\ extracted_data' = parse(ocr_data)
    /\ IF DOMAIN extracted_data' = {}
       THEN pc' = "proceed_prompt" /\ phase' = phase
       ELSE pc' = "confirm" /\ phase' = "Reviewing"
    /\ UNCHANGED << input_method, ocr_data, raw_data, updated_data, user_choice, choice,
                    field_name, new_value, output_format, filename, success, answer >>

\* ProceedPrompt with the answer y leaving out the review loop
ProceedPrompt_SkipReview ==
    /\ pc = "proceed_prompt"
    /\ \E raw \in YesNoInputs :
         /\ answer' = raw
         /\ LET proceed == Lower(Strip(raw))
            IN  IF proceed # "y"
             THEN Return("False") /\ phase' = phase
             ELSE pc' = "format" /\ phase' = phase
                  /\ UNCHANGED << ocr_data, raw_data, extracted_data, updated_data, choice,
                                  field_name, new_value, output_format, filename,
                                  success >>
    /\ UNCHANGED << input_method, user_choice >>

\* ProceedPrompt stopping on the answer n only (== "n" for != "y" in line 211)
ProceedPrompt_DefaultYes ==
    /\ pc = "proceed_prompt"
    /\ \E raw \in YesNoInputs :
         /\ answer' = raw
         /\ LET proceed == Lower(Strip(raw))
            IN  IF proceed = "n"
                THEN Return("False") /\ phase' = phase
                ELSE pc' = "confirm" /\ phase' = "Reviewing"
                     /\ UNCHANGED << ocr_data, raw_data, extracted_data, updated_data,
                                     choice, field_name, new_value, output_format,
                                     filename, success >>
    /\ UNCHANGED << input_method, user_choice >>

\* lines 210-213
ProceedPrompt ==
    /\ pc = "proceed_prompt"
    /\ \E raw \in YesNoInputs :
         /\ answer' = raw
         /\ LET proceed == Lower(Strip(raw))
            IN  IF proceed # "y"
             THEN Return("False") /\ phase' = phase
             ELSE pc' = "confirm" /\ phase' = "Reviewing"
                  /\ UNCHANGED << ocr_data, raw_data, extracted_data, updated_data, choice,
                                  field_name, new_value, output_format, filename,
                                  success >>
    /\ UNCHANGED << input_method, user_choice >>

\* Confirm with the cancel branch leaving the loop by break (line 238 lost)
Confirm_CancelBreaks ==
    /\ pc = "confirm"
    /\ \E raw \in ConfirmInputs :
         /\ answer' = raw
         /\ LET c == Upper(Strip(raw))
            IN  IF c = "A"
             THEN /\ user_choice' = "accept" /\ phase' = "Accepted" /\ pc' = "format"
                  /\ choice' = NoInput
                  /\ UNCHANGED << ocr_data, raw_data, extracted_data, updated_data, field_name,
                                  new_value, output_format, filename, success >>
             ELSE IF c = "E"
             THEN /\ user_choice' = "edit" /\ phase' = "Editing" /\ pc' = "edit_select"
                  /\ choice' = NoInput
                  /\ updated_data' = extracted_data
                  /\ UNCHANGED << ocr_data, raw_data, extracted_data, field_name, new_value,
                                  output_format, filename, success >>
             ELSE IF c = "C"
             THEN /\ user_choice' = "cancel" /\ phase' = "Cancelled" /\ pc' = "format"
                  /\ choice' = NoInput
                  /\ UNCHANGED << ocr_data, raw_data, extracted_data, updated_data, field_name,
                                  new_value, output_format, filename, success >>
             ELSE /\ choice' = c
                  /\ UNCHANGED << pc, ocr_data, raw_data, extracted_data, updated_data, user_choice,
                                  phase, field_name, new_value, output_format, filename,
                                  success >>
    /\ UNCHANGED input_method

\* Confirm taking the empty line as accept (a default for the A/E/C prompt)
Confirm_EmptyAccepts ==
    /\ pc = "confirm"
    /\ \E raw \in ConfirmInputs :
         /\ answer' = raw
         /\ LET c == Upper(Strip(raw))
            IN  IF c = "A" \/ c = ""
                THEN /\ user_choice' = "accept" /\ phase' = "Accepted" /\ pc' = "format"
                     /\ choice' = NoInput
                     /\ UNCHANGED << ocr_data, raw_data, extracted_data, updated_data,
                                     field_name, new_value, output_format, filename,
                                     success >>
                ELSE IF c = "E"
                THEN /\ user_choice' = "edit" /\ phase' = "Editing" /\ pc' = "edit_select"
                     /\ choice' = NoInput
                     /\ updated_data' = extracted_data
                     /\ UNCHANGED << ocr_data, raw_data, extracted_data, field_name,
                                     new_value, output_format, filename, success >>
                ELSE IF c = "C"
                THEN user_choice' = "cancel" /\ phase' = "Cancelled" /\ Return("False")
                ELSE /\ choice' = c
                     /\ UNCHANGED << pc, ocr_data, raw_data, extracted_data, updated_data,
                                     user_choice, phase, field_name, new_value,
                                     output_format, filename, success >>
    /\ UNCHANGED input_method

\* the review loop, lines 221-238: display_fields_for_review (prints only),
\* get_user_confirmation and the branch on its result
Confirm ==
    /\ pc = "confirm"
    /\ \E raw \in ConfirmInputs :
         /\ answer' = raw
         /\ LET c == Upper(Strip(raw))
            IN  IF c = "A"
             THEN /\ user_choice' = "accept" /\ phase' = "Accepted" /\ pc' = "format"
                  /\ choice' = NoInput
                  /\ UNCHANGED << ocr_data, raw_data, extracted_data, updated_data, field_name,
                                  new_value, output_format, filename, success >>
             ELSE IF c = "E"
             THEN /\ user_choice' = "edit" /\ phase' = "Editing" /\ pc' = "edit_select"
                  /\ choice' = NoInput
                  /\ updated_data' = extracted_data
                  /\ UNCHANGED << ocr_data, raw_data, extracted_data, field_name, new_value,
                                  output_format, filename, success >>
             ELSE IF c = "C"
             THEN user_choice' = "cancel" /\ phase' = "Cancelled" /\ Return("False")
             ELSE /\ choice' = c
                  /\ UNCHANGED << pc, ocr_data, raw_data, extracted_data, updated_data, user_choice,
                                  phase, field_name, new_value, output_format, filename,
                                  success >>
    /\ UNCHANGED input_method

\* EditSelect with "done" ending the review loop as if accepted
EditSelect_DoneAccepts ==
    /\ pc = "edit_select"
    /\ \E raw \in EditSelectInputs :
         /\ answer' = raw
         /\ LET c == Strip(raw)
                n == Cardinality(DOMAIN updated_data)
            IN  IF Lower(c) = "done" \/ c = IntToStr(n + 1)
             THEN /\ extracted_data' = updated_data
                  /\ updated_data' = << >>
                  /\ pc' = "format" /\ phase' = "Accepted"
                  /\ choice' = NoInput /\ field_name' = "None" /\ new_value' = NoInput
             ELSE IF IsIntLiteral(c) /\ 0 <= ParseInt(c) - 1 /\ ParseInt(c) - 1 < n
             THEN /\ field_name' = SortedFields(updated_data)[(ParseInt(c) - 1) + 1]
                  /\ pc' = "edit_value"
                  /\ choice' = c
                  /\ UNCHANGED << extracted_data, updated_data, phase, new_value >>
             ELSE /\ choice' = c
                  /\ UNCHANGED << pc, extracted_data, updated_data, phase, field_name,
                                  new_value >>
    /\ UNCHANGED << input_method, ocr_data, raw_data, user_choice, output_format, filename, success >>

\* EditSelect without the lower bound of line 125 (field_idx < len only): a
\* negative index counts from the end of sorted_fields
EditSelect_NoLowerBound ==
    /\ pc = "edit_select"
    /\ \E raw \in EditSelectInputs :
         /\ answer' = raw
         /\ LET c == Strip(raw)
                n == Cardinality(DOMAIN updated_data)
            IN  IF Lower(c) = "done" \/ c = IntToStr(n + 1)
                THEN /\ extracted_data' = updated_data
                     /\ updated_data' = << >>
                     /\ pc' = "confirm" /\ phase' = "Reviewing"
                     /\ choice' = NoInput /\ field_name' = "None" /\ new_value' = NoInput
                ELSE IF IsIntLiteral(c) /\ ParseInt(c) - 1 < n /\ n + (ParseInt(c) - 1) >= 0
                THEN /\ field_name' =
                          SortedFields(updated_data)
                              [ IF ParseInt(c) - 1 < 0 THEN n + ParseInt(c) ELSE ParseInt(c) ]
                     /\ pc' = "edit_value"
                     /\ choice' = c
                     /\ UNCHANGED << extracted_data, updated_data, phase, new_value >>
                ELSE /\ choice' = c
                     /\ UNCHANGED << pc, extracted_data, updated_data, phase, field_name,
                                     new_value >>
    /\ UNCHANGED << input_method, ocr_data, raw_data, user_choice, output_format, filename,
                    success >>

\* get_field_edits, lines 108-126 and 141-146: the field-number prompt
EditSelect ==
    /\ pc = "edit_select"
    /\ \E raw \in EditSelectInputs :
         /\ answer' = raw
         /\ LET c == Strip(raw)
                n == Cardinality(DOMAIN updated_data)
            IN  IF Lower(c) = "done" \/ c = IntToStr(n + 1)
             THEN \* break; return updated_data; line 233 binds it to extracted_data
                  /\ extracted_data' = updated_data
                  /\ updated_data' = << >>
                  /\ pc' = "confirm" /\ phase' = "Reviewing"
                  /\ choice' = NoInput /\ field_name' = "None" /\ new_value' = NoInput
             ELSE IF IsIntLiteral(c) /\ 0 <= ParseInt(c) - 1 /\ ParseInt(c) - 1 < n
             THEN /\ field_name' = SortedFields(updated_data)[(ParseInt(c) - 1) + 1]
                  /\ pc' = "edit_value"
                  /\ choice' = c
                  /\ UNCHANGED << extracted_data, updated_data, phase, new_value >>
             ELSE \* ValueError, or a number out of range: prompt again
                  /\ choice' = c
                  /\ UNCHANGED << pc, extracted_data, updated_data, phase, field_name,
                                  new_value >>
    /\ UNCHANGED << input_method, ocr_data, raw_data, user_choice, output_format, filename, success >>

\* EditValue writing the replacement through to the tokens as well, as if the
\* field record were a view of the token it was taken from
EditValue_WritesToken ==
    /\ pc = "edit_value"
    /\ \E raw \in NewValueInputs :
         /\ answer' = raw
         /\ new_value' = Strip(raw)
         /\ IF new_value' # ""
            THEN /\ updated_data' = EditField(updated_data, field_name, new_value')
                 /\ extracted_data' = EditField(extracted_data, field_name, new_value')
                 /\ ocr_data' =
                      [ i \in 1..Len(ocr_data) |->
                          IF ocr_data[i].text = updated_data[field_name].value
                          THEN [ ocr_data[i] EXCEPT !.text = new_value', !.confidence = 100 ]
                          ELSE ocr_data[i] ]
            ELSE UNCHANGED << updated_data, extracted_data, ocr_data >>
    /\ pc' = "edit_select"
    /\ UNCHANGED << input_method, raw_data, user_choice, phase, choice, field_name,
                    output_format, filename, success >>

\* EditValue storing the empty replacement too (the test of line 134 dropped)
EditValue_EmptyClears ==
    /\ pc = "edit_value"
    /\ \E raw \in NewValueInputs :
         /\ answer' = raw
         /\ new_value' = Strip(raw)
         /\ updated_data' = EditField(updated_data, field_name, new_value')
         /\ extracted_data' = EditField(extracted_data, field_name, new_value')
    /\ pc' = "edit_select"
    /\ UNCHANGED << input_method, ocr_data, raw_data, user_choice, phase, choice, field_name,
                    output_format, filename, success >>

\* get_field_edits, lines 128-140: the replacement prompt.  updated_data is
\* extracted_data.copy(), a shallow copy: both maps hold the same field
\* records, so the write is seen through both.
EditValue ==
    /\ pc = "edit_value"
    /\ \E raw \in NewValueInputs :
         /\ answer' = raw
         /\ new_value' = Strip(raw)
         /\ IF new_value' # ""
            THEN /\ updated_data' = EditField(updated_data, field_name, new_value')
                 /\ extracted_data' = EditField(extracted_data, field_name, new_value')
            ELSE UNCHANGED << updated_data, extracted_data >>
    /\ pc' = "edit_select"
    /\ UNCHANGED << input_method, ocr_data, raw_data, user_choice, phase, choice, field_name,
                    output_format, filename, success >>

\* OutputFormat taking a line that is no menu entry as the format's name
OutputFormat_PassThrough ==
    /\ pc = "format"
    /\ \E raw \in FormatInputs :
         /\ answer' = raw
         /\ LET c == Strip(raw)
            IN  IF c = "0"
             THEN Return("False")
             ELSE /\ output_format' = (CASE c = "1" -> "excel" [] c = "2" -> "json"
                                         [] c = "3" -> "csv" [] OTHER -> c)
                  /\ pc' = "filename" /\ choice' = NoInput
                  /\ UNCHANGED << ocr_data, raw_data, extracted_data, updated_data, field_name,
                                  new_value, filename, success >>
    /\ UNCHANGED << input_method, user_choice, phase >>

\* step 6: get_output_format, lines 244-248
OutputFormat ==
    /\ pc = "format"
    /\ \E raw \in FormatInputs :
         /\ answer' = raw
         /\ LET c == Strip(raw)
            IN  IF c \in { "1", "2", "3" }
             THEN /\ output_format' = (CASE c = "1" -> "excel" [] c = "2" -> "json"
                                         [] c = "3" -> "csv")
                  /\ pc' = "filename" /\ choice' = NoInput
                  /\ UNCHANGED << ocr_data, raw_data, extracted_data, updated_data, field_name,
                                  new_value, filename, success >>
             ELSE IF c = "0"
             THEN Return("False")
             ELSE /\ choice' = c
                  /\ UNCHANGED << pc, ocr_data, raw_data, extracted_data, updated_data, field_name,
                                  new_value, output_format, filename, success >>
    /\ UNCHANGED << input_method, user_choice, phase >>

\* OutputFilename entering the chosen name into the result as a field
OutputFilename_NamesResult ==
    /\ pc = "filename"
    /\ \E raw \in FilenameInputs :
         /\ answer' = raw
         /\ filename' = OutputFilenameFor(Strip(raw), "scanned_document")
    /\ extracted_data' =
          [ f \in DOMAIN extracted_data \cup { "File" } |->
              IF f = "File" THEN [value |-> filename', confidence |-> 100]
              ELSE extracted_data[f] ]
    /\ pc' = "save"
    /\ UNCHANGED << input_method, ocr_data, raw_data, updated_data, user_choice,
                    phase, choice, field_name, new_value, output_format, success >>

\* get_output_filename, line 251
OutputFilename ==
    /\ pc = "filename"
    /\ \E raw \in FilenameInputs :
         /\ answer' = raw
         /\ filename' = OutputFilenameFor(Strip(raw), "scanned_document")
    /\ pc' = "save"
    /\ UNCHANGED << input_method, ocr_data, raw_data, extracted_data, updated_data, user_choice,
                    phase, choice, field_name, new_value, output_format, success >>

\* step 7, lines 258-269: print_final_summary (prints only), then
\* DataSaver.save(extracted_data, filename, output_format), which reports
\* whether the file was written
Save ==
    /\ pc = "save"
    /\ \E written \in (IF save(output_format) = "unknown" THEN { "False" }
                       ELSE { "True", "False" }) : Return(written)
    /\ UNCHANGED << input_method, user_choice, phase, answer >>

\* ScanAnother going on unless the answer is n (the test of line 298 turned
\* into another == "n")
ScanAnother_DefaultYes ==
    /\ pc = "another"
    /\ \E raw \in YesNoInputs :
         /\ answer' = raw
         /\ LET another == Lower(Strip(raw))
            IN  pc' = IF another = "n" THEN "exited" ELSE "menu"
    /\ UNCHANGED << input_method, ocr_data, raw_data, extracted_data, updated_data, user_choice,
                    phase, choice, field_name, new_value, output_format, filename,
                    success >>

\* run, lines 295-303
ScanAnother ==
    /\ pc = "another"
    /\ \E raw \in YesNoInputs :
         /\ answer' = raw
         /\ LET another == Lower(Strip(raw))
            IN  pc' = IF another # "y" THEN "exited" ELSE "menu"
    /\ UNCHANGED << input_method, ocr_data, raw_data, extracted_data, updated_data, user_choice,
                    phase, choice, field_name, new_value, output_format, filename,
                    success >>

\* the positions where the application waits in input()
PromptPcs ==
    { "menu", "retry_prompt", "proceed_prompt", "confirm", "edit_select", "edit_value",
      "format", "filename", "another" }

\* run, lines 305-310: KeyboardInterrupt (or EOF) at a prompt unwinds every
\* frame and ends run
Interrupt ==
    /\ pc \in PromptPcs
    /\ pc' = "interrupted"
    /\ ocr_data' = << >>
    /\ raw_data' = << >>
    /\ extracted_data' = << >>
    /\ updated_data' = << >>
    /\ choice' = NoInput
    /\ field_name' = "None"
    /\ new_value' = NoInput
    /\ output_format' = "None"
    /\ filename' = "None"
    /\ input_method' = "None"
    /\ UNCHANGED << user_choice, phase, success, answer >>

Next ==
    \/ ShowInputMenu
    \/ Acquire
    \/ Preprocess
    \/ OcrExtract
    \/ QualityCheck
    \/ RetryPrompt
    \/ Parse
    \/ ProceedPrompt
    \/ Confirm
    \/ EditSelect
    \/ EditValue
    \/ OutputFormat
    \/ OutputFilename
    \/ Save
    \/ ScanAnother
    \/ Interrupt

Spec == Init /\ [][Next]_vars

(***************************************************************************)
(* Properties                                                              *)
(***************************************************************************)
\* the positions from output-format selection to the call of DataSaver.save
SavePcs == { "format", "filename", "save" }

\* C1: DataSaver.save is called (the step taken at pc = "save") only when the
\* review loop was left by the operator's accept: whenever control is on the
\* way to the saver the phase is Accepted and the last decision is accept, and
\* in phase None, Reviewing, Editing or Cancelled control is not there.
C1_SaveOnlyAfterAccept ==
    /\ pc \in SavePcs => (phase = "Accepted" /\ user_choice = "accept")
    /\ phase \in { "None", "Reviewing", "Editing", "Cancelled" } => pc \notin SavePcs

\* C1 witness: the saver is about to be called with a non-empty result that
\* was edited and then accepted
C1_Witness ==
    /\ pc = "save"
    /\ phase = "Accepted"
    /\ \E f \in DOMAIN extracted_data : extracted_data[f].confidence = 100

\* C2: a cancel decision ends the session in Cancelled, makes
\* run_complete_pipeline return False to the menu with the result discarded,
\* and while the phase is Cancelled control never reaches format selection,
\* filename selection or DataSaver.save.
C2_CancelDiscards ==
    /\ [][ (pc = "confirm" /\ user_choice' = "cancel") =>
             /\ phase' = "Cancelled"
             /\ pc' = "menu"
             /\ success' = "False"
             /\ extracted_data' = << >> ]_vars
    /\ [](phase = "Cancelled" => (pc \notin SavePcs /\ extracted_data = << >>))

\* C2 witness: a session was cancelled and run is back at the input menu with
\* the result False
C2_Witness ==
    /\ phase = "Cancelled"
    /\ user_choice = "cancel"
    /\ pc = "menu"
    /\ success = "False"

\* C3: the phase of a session changes only by Reviewing->Editing (edit),
\* Reviewing->Accepted (accept), Reviewing->Cancelled (cancel) and
\* Editing->Reviewing (done).  A session begins in Reviewing (None->Reviewing);
\* Accepted and Cancelled are left only when the next call of
\* run_complete_pipeline begins with no session.
C3_PhaseTransitions ==
    [][ phase' # phase =>
          \/ phase = "None" /\ phase' = "Reviewing"
          \/ phase = "Reviewing" /\ phase' = "Editing" /\ user_choice' = "edit"
          \/ phase = "Reviewing" /\ phase' = "Accepted" /\ user_choice' = "accept"
          \/ phase = "Reviewing" /\ phase' = "Cancelled" /\ user_choice' = "cancel"
          \/ phase = "Editing" /\ phase' = "Reviewing" /\ pc = "edit_select"
          \/ /\ phase \in { "Accepted", "Cancelled" }
             /\ phase' = "None"
             /\ pc = "acquire"
             /\ pc' = "preprocess" ]_vars

\* C3 witness: back in Reviewing after an edit round that changed a field
C3_Witness ==
    /\ phase = "Reviewing"
    /\ user_choice = "edit"
    /\ pc = "confirm"
    /\ \E f \in DOMAIN extracted_data : extracted_data[f].value = "Ali"

\* a replacement was typed for field_name and get_field_edits is back at its
\* field-number prompt
EditedState == pc = "edit_select" /\ new_value \notin { NoInput, "" }

\* C4 as stated: after a successful edit the field has the new text,
\* confidence 100 and an edited flag that is true.
C4_EditSetsEditedFlag ==
    EditedState =>
        /\ updated_data[field_name].value = new_value
        /\ updated_data[field_name].confidence = 100
        /\ "edited" \in DOMAIN updated_data[field_name]
        /\ updated_data[field_name].edited = TRUE

\* C4 amended: after a successful edit the field has the new text and
\* confidence exactly 100, in the copy and in the caller's map; the record has
\* the keys value and confidence only (no edited flag is kept).
C4_EditPinsConfidence ==
    EditedState =>
        /\ updated_data[field_name] = [ value |-> new_value, confidence |-> 100 ]
        /\ extracted_data[field_name] = [ value |-> new_value, confidence |-> 100 ]

\* C4 witness: a field extracted with a confidence below 100 has been edited
C4_Witness ==
    /\ EditedState
    /\ new_value = "Ali"
    /\ parse(ocr_data)[field_name].confidence < 100
    /\ updated_data[field_name].value = "Ali"

\* the states in which the tokens of a scan have just been produced
TokensReady == pc = "gate"

LabelIndexOf(f) == _find_label(FIELD_LABELS[f], ocr_data)
ValueIndexOf(f) == ValueIndex(f, FIELD_LABELS[f], ocr_data)

SameLine(i, li) == Abs(ocr_data[i].top - ocr_data[li].top) <= 15
BeyondGap(i, li) == ocr_data[i].left >= ocr_data[li].left + ocr_data[li].width + 120

\* C5: for every token list and every catalog field, the value returned by
\* _find_field_value is not a text that satisfies _is_label_text.
C5_LabelExclusion ==
    TokensReady =>
        \A f \in DOMAIN FIELD_LABELS :
            LET r == _find_field_value(f, FIELD_LABELS[f], ocr_data)
            IN  r # None => ~_is_label_text(r.value)

\* C5 witness: a label-like token is on the label's line, beyond the gap and
\* passes the validator, and a value is returned
C5_Witness ==
    /\ TokensReady
    /\ \E f \in DOMAIN FIELD_LABELS :
         /\ ValueIndexOf(f) # 0
         /\ \E i \in 1..Len(ocr_data) :
              /\ i # LabelIndexOf(f)
              /\ SameLine(i, LabelIndexOf(f))
              /\ BeyondGap(i, LabelIndexOf(f))
              /\ _validate_value(ocr_data[i].text, f)
              /\ _is_label_text(ocr_data[i].text)

\* C6: the token a field's value is taken from is within 15 px of the label's
\* top and its left edge is at least the label's right edge plus 120 px.
C6_SpatialConditions ==
    TokensReady =>
        \A f \in DOMAIN FIELD_LABELS :
            ValueIndexOf(f) # 0 =>
                /\ SameLine(ValueIndexOf(f), LabelIndexOf(f))
                /\ BeyondGap(ValueIndexOf(f), LabelIndexOf(f))

\* C6 witness: the chosen token is exactly 15 px below the label, and an
\* earlier token that is no label and passes the validator was passed over
\* because it is 1 px short of the gap
C6_Witness ==
    /\ TokensReady
    /\ \E f \in DOMAIN FIELD_LABELS :
         /\ ValueIndexOf(f) # 0
         /\ Abs(ocr_data[ValueIndexOf(f)].top - ocr_data[LabelIndexOf(f)].top) = 15
         /\ \E j \in 1..(ValueIndexOf(f) - 1) :
              /\ j # LabelIndexOf(f)
              /\ ~BeyondGap(j, LabelIndexOf(f))
              /\ ocr_data[j].left + 1 = ocr_data[LabelIndexOf(f)].left
                                          + ocr_data[LabelIndexOf(f)].width + 120
              /\ ~_is_label_text(ocr_data[j].text)
              /\ _validate_value(ocr_data[j].text, f)

\* the tokens that meet the four association conditions for field f
Qualifying(f) ==
    { i \in 1..Len(ocr_data) :
        /\ SameLine(i, LabelIndexOf(f))
        /\ BeyondGap(i, LabelIndexOf(f))
        /\ ~_is_label_text(ocr_data[i].text)
        /\ _validate_value(ocr_data[i].text, f) }

\* C7: with a label located, _find_field_value takes the qualifying token of
\* the smallest index, and returns None when no token qualifies.
C7_FirstQualifying ==
    TokensReady =>
        \A f \in DOMAIN FIELD_LABELS :
            LabelIndexOf(f) # 0 =>
                IF Qualifying(f) = {}
                THEN ValueIndexOf(f) = 0
                ELSE ValueIndexOf(f) = MinOf(Qualifying(f))

\* C7 witness: two tokens qualify, the later one with the higher confidence,
\* and the earlier one is returned
C7_Witness ==
    /\ TokensReady
    /\ \E f \in DOMAIN FIELD_LABELS :
         /\ LabelIndexOf(f) # 0
         /\ \E i, j \in Qualifying(f) :
              /\ i < j
              /\ ocr_data[j].confidence > ocr_data[i].confidence
              /\ ValueIndexOf(f) = i

\* the tokens whose lower-cased text contains a keyword of f and that look
\* like a label
LabelTokens(f) ==
    { i \in 1..Len(ocr_data) :
        /\ \E k \in 1..Len(FIELD_LABELS[f]) :
              Contains(FIELD_LABELS[f][k], Lower(ocr_data[i].text))
        /\ _is_label_text(ocr_data[i].text) }

\* C8: _find_label returns the smallest index of a token that contains a
\* keyword of the field and satisfies _is_label_text, and None (0) when there
\* is no such token.  Indices are 1-based here, Python's index plus one.
C8_FindLabelFirst ==
    TokensReady =>
        \A f \in DOMAIN FIELD_LABELS :
            IF LabelTokens(f) = {}
            THEN LabelIndexOf(f) = 0
            ELSE LabelIndexOf(f) = MinOf(LabelTokens(f))

\* C8 witness: an earlier token contains a keyword but is no label, and the
\* label is found after it; another field has no label at all
C8_Witness ==
    /\ TokensReady
    /\ \E f \in DOMAIN FIELD_LABELS :
         /\ LabelIndexOf(f) > 1
         /\ \E j \in 1..(LabelIndexOf(f) - 1) :
              /\ \E k \in 1..Len(FIELD_LABELS[f]) :
                    Contains(FIELD_LABELS[f][k], Lower(ocr_data[j].text))
              /\ ~_is_label_text(ocr_data[j].text)
    /\ \E g \in DOMAIN FIELD_LABELS : LabelIndexOf(g) = 0

\* the sum of (confidence - t) over the tokens: negative iff the mean is below t
RECURSIVE ExcessOver(_, _)
ExcessOver(tokens, t) ==
    IF tokens = << >> THEN 0
    ELSE (tokens[1].confidence - t) + ExcessOver(Tail(tokens), t)

\* the arithmetic mean of the confidences (0 for none) is strictly below t
MeanBelow(tokens, t) ==
    IF Len(tokens) = 0 THEN 0 < t ELSE ExcessOver(tokens, t) < 0

\* the positions of run_complete_pipeline behind the gate
PastGatePcs ==
    { "parse", "proceed_prompt", "confirm", "edit_select", "edit_value", "format",
      "filename", "save" }

\* C9: for every threshold 0..100 the gate rejects exactly when the mean of
\* the confidences (0 for none: the token list is empty at the menu, and any
\* list a scan can produce is at the gate) is strictly below the threshold; in the
\* pipeline, with threshold 60, the retry prompt is reached exactly with a
\* mean below 60 and extraction goes on exactly with a mean of 60 or more.
C9_GateDecision ==
    /\ pc \in { "menu", "gate" } =>
         \A t \in 0..100 :
            GateRejects(get_average_confidence(ocr_data), t) <=> MeanBelow(ocr_data, t)
    /\ pc = "retry_prompt" => MeanBelow(ocr_data, 60)
    /\ pc \in PastGatePcs => ~MeanBelow(ocr_data, 60)

\* C9 witness: tokens whose mean is exactly 60 were accepted by the gate
C9_Witness ==
    /\ pc = "parse"
    /\ Len(ocr_data) > 1
    /\ ExcessOver(ocr_data, 60) = 0

\* C10: after a gate rejection run_complete_pipeline returns False to the menu
\* for either answer, the rejected tokens are never parsed, reviewed or saved,
\* and extraction is reached only from the gate, the gate only from OCR, OCR
\* only from preprocessing of a frame acquired after the input menu.
C10_RejectionTerminal ==
    /\ [][ (pc = "retry_prompt" /\ pc' # pc /\ pc' # "interrupted") =>
             /\ pc' = "menu"
             /\ success' = "False"
             /\ ocr_data' = << >> ]_vars
    /\ []( (ocr_data # << >> /\ MeanBelow(ocr_data, 60)) =>
             pc \in { "gate", "retry_prompt" } )
    /\ [][ pc' # pc =>
             /\ pc' = "parse" => pc = "gate"
             /\ pc' = "gate" => pc = "ocr"
             /\ pc' = "ocr" => pc = "preprocess"
             /\ pc' = "preprocess" => pc = "acquire"
             /\ pc' = "acquire" => pc = "menu" ]_vars

\* C10 witness: the gate has rejected the tokens of a scan
C10_Witness ==
    /\ pc = "retry_prompt"
    /\ GateRejects(get_average_confidence(ocr_data), OCR_CONFIDENCE_THRESHOLD)
    /\ Len(ocr_data) > 1

\* the tokens of ocr_data equal to d, and the fragments of raw_data that
\* normalise to d
TokensEqual(d) == { i \in 1..Len(ocr_data) : ocr_data[i] = d }
FragmentsEqual(d) == { k \in 1..Len(raw_data) : Detection(raw_data[k]) = d }

\* C11: the tokens extract_ocr_data returns are exactly the reader's fragments
\* whose trimmed text is non-empty and whose normalised confidence is above 0
\* (each as often as it was read, none added), in (top, left) order: of two
\* consecutive tokens the first has the smaller top, or the same top and a
\* left that is not larger.  Results with no such fragment give no token.
C11_FilteredAndOrdered ==
    /\ pc = "gate" =>
          /\ \A d \in { Detection(raw_data[k]) : k \in 1..Len(raw_data) }
                      \cup { ocr_data[i] : i \in 1..Len(ocr_data) } :
                Cardinality(TokensEqual(d)) =
                    IF d.text # "" /\ d.confidence > 0
                    THEN Cardinality(FragmentsEqual(d)) ELSE 0
          /\ \A i \in 1..(Len(ocr_data) - 1) :
                \/ ocr_data[i].top < ocr_data[i + 1].top
                \/ /\ ocr_data[i].top = ocr_data[i + 1].top
                   /\ ocr_data[i].left <= ocr_data[i + 1].left
    /\ pc = "ocr" =>
          \A results \in RawResults :
              extract_ocr_data(results) = << >> <=>
                  \A k \in 1..Len(results) :
                      \/ Strip(results[k].text) = ""
                      \/ Detection(results[k]).confidence <= 0

\* C11 witness: the reader reported a fragment that was dropped and two kept
\* fragments in the reverse of their (top, left) order
C11_Witness ==
    /\ pc = "gate"
    /\ Len(raw_data) > Len(ocr_data)
    /\ \E j, k \in 1..Len(raw_data) :
          /\ j < k
          /\ KeepDetection(Detection(raw_data[j]))
          /\ KeepDetection(Detection(raw_data[k]))
          /\ Detection(raw_data[k]).top < Detection(raw_data[j]).top

\* the fragment of raw_data that token i was made from (the texts of the
\* fragments of one image differ)
FragmentOf(i) == CHOOSE k \in 1..Len(raw_data) : Strip(raw_data[k].text) = ocr_data[i].text

\* the fragment's conf is on the 0-1 scale
UnitScale(r) == r.conf \in 0..1000

FreshlyParsed == pc = "proceed_prompt" \/ (pc = "confirm" /\ user_choice = "None")

\* a label token was located for f and some token qualified as its value
LabelAndValue(f) == LabelIndexOf(f) # 0 /\ Qualifying(f) # {}

\* C13: parse always returns a map (the step from extraction goes on to the
\* continue prompt or to review, never to an error exit); a catalog field is a
\* key of the map iff a label token was located for it and some token
\* qualified as its value; a field with a label but no value is absent, and a
\* field record holds a value and a confidence and nothing about the label.
C13_AbsentNotError ==
    /\ [][ pc = "parse" => pc' \in { "proceed_prompt", "confirm" } ]_vars
    /\ [](FreshlyParsed =>
            /\ DOMAIN extracted_data = { f \in DOMAIN FIELD_LABELS : LabelAndValue(f) }
            /\ \A f \in DOMAIN extracted_data :
                  DOMAIN extracted_data[f] = { "value", "confidence" })

\* C13 witness: of three catalog fields one has a label and a value and is in
\* the map, one has a label and no value and is absent, one has no label
C13_Witness ==
    /\ FreshlyParsed
    /\ \E f, g, h \in DOMAIN FIELD_LABELS :
          /\ f \in DOMAIN extracted_data
          /\ LabelIndexOf(g) # 0 /\ g \notin DOMAIN extracted_data
          /\ LabelIndexOf(h) = 0 /\ h \notin DOMAIN extracted_data

\* the line read last is a y, in any case and with blanks around it
AnsweredYes == Lower(Strip(answer)) = "y"

\* C14: parse of no tokens is the empty map, and results whose fragments are
\* all filtered end the pipeline with False before parse is called.  An empty
\* map always leads to the continue prompt; from there the review loop is
\* entered exactly on the answer y, and any other answer returns False to the
\* menu with the result dropped, without review or save.  Review of an empty
\* map is entered in no other way (only re-entered after an edit round).
C14_EmptyResultDecision ==
    /\ [](ocr_data = << >> => parse(ocr_data) = << >>)
    /\ [](pc = "proceed_prompt" => DOMAIN extracted_data = {})
    /\ [][ (pc = "ocr" /\ pc' # pc) =>
             \/ pc' = "gate" /\ ocr_data' # << >>
             \/ pc' = "menu" /\ success' = "False" /\ ocr_data' = << >> ]_vars
    /\ [][ (pc = "parse" /\ DOMAIN extracted_data' = {}) => pc' = "proceed_prompt" ]_vars
    /\ [][ (pc = "proceed_prompt" /\ pc' \notin { pc, "interrupted" }) =>
             IF AnsweredYes'
             THEN pc' = "confirm" /\ phase' = "Reviewing" /\ extracted_data' = extracted_data
             ELSE pc' = "menu" /\ success' = "False" /\ extracted_data' = << >>
                  /\ phase' = phase ]_vars
    /\ [][ (pc' = "confirm" /\ pc # "confirm" /\ DOMAIN extracted_data' = {}) =>
             \/ pc = "proceed_prompt" /\ AnsweredYes'
             \/ pc = "edit_select" ]_vars

\* C14 witness: tokens that passed the gate gave no field, the operator
\* answered " Y " and the empty result is under review
C14_Witness ==
    /\ pc = "confirm"
    /\ phase = "Reviewing"
    /\ user_choice = "None"
    /\ ocr_data # << >>
    /\ DOMAIN extracted_data = {}
    /\ answer = " Y "

\* the line typed at the field-number prompt, with n fields listed, is neither
\* the word done nor a number in 1..n+1
InvalidSelection(line, n) ==
    LET c == Strip(line)
    IN  /\ Lower(c) # "done"
        /\ IsIntLiteral(c) => ParseInt(c) \notin 1..(n + 1)

\* C15: in Editing, a line at the field-number prompt that is not a number
\* (and not the word done), or is a number outside 1..N and not N+1, is
\* followed by the same prompt with the phase still Editing; no field's value
\* or confidence changes, in the copy or in the caller's map, and no field is
\* selected.
C15_InvalidSelectionReprompts ==
    [][ ( /\ pc = "edit_select"
          /\ pc' # "interrupted"
          /\ InvalidSelection(answer', Cardinality(DOMAIN updated_data)) ) =>
            /\ pc' = "edit_select"
            /\ phase = "Editing" /\ phase' = "Editing"
            /\ updated_data' = updated_data
            /\ extracted_data' = extracted_data
            /\ field_name' = field_name ]_vars

\* C15 witness: with one field listed (and 2 the done entry) the operator
\* typed 0 after an edit and is at the field-number prompt again
C15_Witness ==
    /\ pc = "edit_select"
    /\ phase = "Editing"
    /\ Cardinality(DOMAIN updated_data) = 1
    /\ answer = "0"
    /\ choice = "0"
    /\ \E f \in DOMAIN updated_data : updated_data[f].value = "Ali"

\* C16: the A/E/C prompt returns accept on A, edit on E and cancel on C, read
\* after trimming and in either case, and on nothing else: after any other
\* line, the empty one included, the prompt is asked again with the decision,
\* the phase and the result as they were.
C16_ConfirmReprompts ==
    [][ (pc = "confirm" /\ pc' # "interrupted") =>
          LET c == Upper(Strip(answer'))
          IN  IF c = "A"
              THEN user_choice' = "accept" /\ phase' = "Accepted" /\ pc' = "format"
              ELSE IF c = "E"
              THEN user_choice' = "edit" /\ phase' = "Editing" /\ pc' = "edit_select"
              ELSE IF c = "C"
              THEN user_choice' = "cancel" /\ phase' = "Cancelled" /\ pc' = "menu"
              ELSE /\ pc' = "confirm"
                   /\ user_choice' = user_choice
                   /\ phase' = phase
                   /\ extracted_data' = extracted_data ]_vars

\* C16 witness: the empty line was typed at the first review prompt of a
\* non-empty result, and the prompt is asked again with no decision taken
C16_Witness ==
    /\ pc = "confirm"
    /\ answer = ""
    /\ choice = ""
    /\ user_choice = "None"
    /\ phase = "Reviewing"
    /\ DOMAIN extracted_data # {}

\* C17: the accept decision leaves the result as it is, and so does every
\* step from there to the call of DataSaver.save (format selection, with its
\* refused inputs, and filename selection; the final summary only prints):
\* the map handed to save is the result as it stood at the accept decision,
\* earlier edits included.
C17_AcceptedResultUnchanged ==
    /\ [][ (pc = "confirm" /\ user_choice' = "accept" /\ pc' = "format") =>
             extracted_data' = extracted_data ]_vars
    /\ [][ (pc \in SavePcs /\ pc' \in SavePcs) => extracted_data' = extracted_data ]_vars
    /\ [](pc \in SavePcs => user_choice = "accept")

\* C17 witness: a result with an edited field was accepted, json and the name
\* form were chosen, and DataSaver.save is about to be called with it
C17_Witness ==
    /\ pc = "save"
    /\ user_choice = "accept"
    /\ output_format = "json"
    /\ filename = "form"
    /\ \E f \in DOMAIN extracted_data :
          extracted_data[f] = [value |-> "Ali", confidence |-> 100]

\* the positions of run_complete_pipeline from the call of parse to its return
SessionPcs ==
    { "parse", "proceed_prompt", "confirm", "edit_select", "edit_value", "format",
      "filename", "save" }

NamesBefore(data, name) == { g \in DOMAIN data : StrLess(g, name) }

\* C19: in Editing, the ordinal k typed at the field-number prompt (1 <= k <= N)
\* selects the field with exactly k-1 field names before it in str order; the
\* edit menu and the review display number the same names in the same order;
\* a replacement changes the selected field (its value is the text typed) and
\* no other field, and adds or removes none.
C19_OrdinalSelectsSortedField ==
    /\ [](pc = "edit_value" =>
            LET k == ParseInt(Strip(answer))
            IN  /\ k \in 1..Cardinality(DOMAIN updated_data)
                /\ field_name \in DOMAIN updated_data
                /\ Cardinality(NamesBefore(updated_data, field_name)) = k - 1)
    /\ [](pc \in { "edit_select", "edit_value" } =>
            /\ DOMAIN updated_data = DOMAIN extracted_data
            /\ SortedFields(updated_data) = SortedFields(extracted_data))
    /\ [][ (pc = "edit_value" /\ pc' = "edit_select") =>
             /\ DOMAIN updated_data' = DOMAIN updated_data
             /\ \A g \in DOMAIN updated_data \ { field_name } :
                   /\ updated_data'[g] = updated_data[g]
                   /\ extracted_data'[g] = extracted_data[g]
             /\ Strip(answer') # "" => updated_data'[field_name].value = Strip(answer') ]_vars

\* C19 witness: of the two fields Father Name and Student Name, in that order
\* in the menu, ordinal 1 was typed; Father Name was edited and Student Name
\* has the extracted value still
C19_Witness ==
    /\ pc = "edit_select"
    /\ choice = "1"
    /\ field_name = "Father Name"
    /\ DOMAIN updated_data = { "Father Name", "Student Name" }
    /\ updated_data["Father Name"] = [value |-> "Ali", confidence |-> 100]
    /\ updated_data["Student Name"].value # "Ali"
    /\ updated_data["Student Name"].confidence < 100

\* the tokens (text, left, top, width, height, confidence) of the example
Token(text, l, t, w, h, c) ==
    [text |-> text, left |-> l, top |-> t, width |-> w, height |-> h, confidence |-> c]

ExampleTokens ==
    << Token("Student", 10, 10, 60, 20, 90),
       Token("Name:",   75, 10, 55, 20, 88),
       Token("John",   400, 12, 60, 20, 95),
       Token("Doe",    470, 12, 50, 20, 93) >>

\* C20 as stated: on the example tokens the label located for Student Name is
\* the token at index 1, "Name:" (the second token), and the field is
\* Student Name = {John, 95}.
C20_ExampleLabelIsName ==
    ocr_data = ExampleTokens =>
        /\ LabelIndexOf("Student Name") = 2
        /\ ocr_data[LabelIndexOf("Student Name")].text = "Name:"
        /\ _find_field_value("Student Name", FIELD_LABELS["Student Name"], ocr_data)
               = [value |-> "John", confidence |-> 95]

\* C20 amended: on the example tokens, with position threshold 15 and minimum
\* gap 120, the label located for Student Name is the token at index 0,
\* "Student" (the first token: it contains the keyword student and is itself
\* a catalog keyword), the value is taken from "John", the first token on the
\* line beyond the gap, and the result parse returns is
\* Student Name = {John, 95} and no other field.
C20_ExampleLabelIsStudent ==
    ocr_data = ExampleTokens =>
        /\ position_threshold = 15 /\ min_horizontal_gap = 120
        /\ LabelIndexOf("Student Name") = 1
        /\ ocr_data[LabelIndexOf("Student Name")].text = "Student"
        /\ ValueIndexOf("Student Name") = 3
        /\ _find_field_value("Student Name", FIELD_LABELS["Student Name"], ocr_data)
               = [value |-> "John", confidence |-> 95]
        /\ FreshlyParsed =>
               extracted_data = [ f \in { "Student Name" } |->
                                    [value |-> "John", confidence |-> 95] ]

\* C20 witness: the example tokens were extracted from the image, passed the
\* gate and were parsed; the result is at the first review prompt
C20_Witness ==
    /\ pc = "confirm"
    /\ user_choice = "None"
    /\ raw_data = ExampleResults
    /\ ocr_data = ExampleTokens
    /\ "Student Name" \in DOMAIN extracted_data

\* the contact rule as the specification words it
ContactRule(text) ==
    /\ \A k \in 1..Len(text) : CharAt(text, k) \in DigitSet \cup { " ", "-", "(", ")", "+" }
    /\ Cardinality({ k \in 1..Len(text) : CharAt(text, k) \in DigitSet }) >= 7

\* the tokens placed as a value of f: on the label's line, beyond the gap, not
\* the label itself and not label-like
Placed(f) ==
    { i \in 1..Len(ocr_data) :
        /\ i # LabelIndexOf(f)
        /\ SameLine(i, LabelIndexOf(f))
        /\ BeyondGap(i, LabelIndexOf(f))
        /\ ~_is_label_text(ocr_data[i].text) }

\* C21: for Contact the validator accepts a text iff it consists of digits,
\* spaces, hyphens, parentheses and plus signs only and holds at least 7
\* digits; when every token placed as Contact's value has fewer than 7 digits
\* (like 555-12), Contact is absent from the result.
C21_ContactValidator ==
    /\ TokensReady =>
          \A i \in 1..Len(ocr_data) :
              _validate_value(ocr_data[i].text, "Contact") <=> ContactRule(ocr_data[i].text)
    /\ FreshlyParsed =>
          ( ( /\ LabelIndexOf("Contact") # 0
              /\ \A i \in Placed("Contact") : CountDigits(ocr_data[i].text) < 7 )
            => "Contact" \notin DOMAIN extracted_data )

\* C21 witness: 555-12 is the only token placed as Contact's value, and the
\* result, which holds another field or none, has no Contact
C21_Witness ==
    /\ FreshlyParsed
    /\ LabelIndexOf("Contact") # 0
    /\ Placed("Contact") # {}
    /\ \A i \in Placed("Contact") : ocr_data[i].text = "555-12"
    /\ "Contact" \notin DOMAIN extracted_data

\* the texts of a scan: what the reader reported and what became a token
ScanTexts ==
    { raw_data[k].text : k \in 1..Len(raw_data) }
        \cup { ocr_data[i].text : i \in 1..Len(ocr_data) }

\* the text with the blanks at both ends removed has fewer than 2 characters
\* (the empty and the all-blank text included)
TooShort(text) ==
    \A a, b \in 1..Len(text) :
        (a < b) => (CharAt(text, a) \in { " ", "\t" } \/ CharAt(text, b) \in { " ", "\t" })

\* C22: for every field type the validator rejects a text that is empty, all
\* blanks or shorter than 2 characters once trimmed, whatever the category rule
\* would say; no extracted field has a value of fewer than 2 trimmed characters.
C22_ShortTextRejected ==
    /\ TokensReady =>
          \A f \in DOMAIN FIELD_LABELS : \A text \in ScanTexts \cup { "" } :
              TooShort(text) => ~_validate_value(text, f)
    /\ FreshlyParsed =>
          \A f \in DOMAIN extracted_data : ~TooShort(extracted_data[f].value)

\* C22 witness: a one-digit token, which the marks rule alone accepts, is
\* placed as the value of Marks before the token the value is taken from
C22_Witness ==
    /\ FreshlyParsed
    /\ "Marks" \in DOMAIN extracted_data
    /\ \E i \in Placed("Marks") :
          /\ i < ValueIndexOf("Marks")
          /\ Len(ocr_data[i].text) = 1
          /\ ocr_data[i].text \in DigitSet
    /\ ~TooShort(extracted_data["Marks"].value)

\* the three ways a text is label-like, as the specification words them: it
\* ends with a colon; lower-cased it is a keyword of some catalog entry; it is
\* shorter than 15 characters and upper-case (it has a letter, and upper() leaves
\* it as it is)
LabelRule(text) ==
    \/ (text # "" /\ CharAt(text, Len(text)) = ":")
    \/ \E f \in DOMAIN FIELD_LABELS : \E k \in 1..Len(FIELD_LABELS[f]) :
          Lower(text) = FIELD_LABELS[f][k]
    \/ (Len(text) < 15 /\ Upper(text) = text /\ Lower(text) # text)

\* C23: _is_label_text holds of a text iff the text ends with a colon, or its
\* lower-cased form is exactly a keyword of the catalog, or it is shorter than
\* 15 characters and entirely upper-case; the token located as a label
\* satisfies the predicate and the token taken as a value does not.
C23_LabelPredicate ==
    TokensReady =>
        /\ \A text \in ScanTexts : _is_label_text(text) <=> LabelRule(text)
        /\ \A f \in DOMAIN FIELD_LABELS :
              /\ LabelIndexOf(f) # 0 => LabelRule(ocr_data[LabelIndexOf(f)].text)
              /\ ValueIndexOf(f) # 0 => ~LabelRule(ocr_data[ValueIndexOf(f)].text)

\* C23 witness: the label ends with a colon, and the value is taken from an
\* upper-case token of 15 characters or more that contains a keyword
C23_Witness ==
    /\ TokensReady
    /\ \E f \in DOMAIN FIELD_LABELS :
          /\ ValueIndexOf(f) # 0
          /\ EndsWith(ocr_data[LabelIndexOf(f)].text, ":")
          /\ LET text == ocr_data[ValueIndexOf(f)].text
             IN  /\ Len(text) >= 15
                 /\ IsUpper(text)
                 /\ \E k \in 1..Len(FIELD_LABELS[f]) : Contains(FIELD_LABELS[f][k], Lower(text))

\* the tier of a confidence, as the specification words it
TierRule(c) ==
    CASE c >= 80            -> "HIGH"
      [] c >= 60 /\ c < 80  -> "MEDIUM"
      [] OTHER              -> "LOW"

\* C24: the review display gives each field the tier high for a confidence of
\* 80 or more, medium for 60 to 79 and low below 60, next to the field's own
\* value and confidence; the display changes no field; the gate decides from
\* the tokens' mean before any field exists; and which of accept, edit and
\* cancel is taken depends on the typed line only.
C24_TierDisplayOnly ==
    /\ [](pc = "confirm" =>
            LET rows == display_fields_for_review(extracted_data)
            IN  /\ { rows[k].field_name : k \in 1..Len(rows) } = DOMAIN extracted_data
                /\ \A k \in 1..Len(rows) :
                      /\ rows[k].value = extracted_data[rows[k].field_name].value
                      /\ rows[k].confidence = extracted_data[rows[k].field_name].confidence
                      /\ rows[k].confidence_indicator = TierRule(rows[k].confidence))
    /\ [][ pc = "gate" =>
             /\ extracted_data = << >>
             /\ (pc' = "retry_prompt") <=> MeanBelow(ocr_data, 60) ]_vars
    /\ [][ (pc = "confirm" /\ pc' # "interrupted") =>
             /\ (pc' = "format") <=> (Upper(Strip(answer')) = "A")
             /\ (pc' = "edit_select") <=> (Upper(Strip(answer')) = "E")
             /\ (pc' = "menu") <=> (Upper(Strip(answer')) = "C")
             /\ (pc' # "menu") => extracted_data' = extracted_data ]_vars

\* C24 witness: a result with a field of confidence 59, shown as low, was
\* accepted as it is
C24_Witness ==
    /\ pc = "format"
    /\ user_choice = "accept"
    /\ \E k \in 1..Len(display_fields_for_review(extracted_data)) :
          LET row == display_fields_for_review(extracted_data)[k]
          IN  row.confidence = 59 /\ row.confidence_indicator = "LOW"

\* the steps get_field_edits takes before it returns: a selection or a
\* replacement, with the edit menu asked again afterwards
InsideEdits == pc \in { "edit_select", "edit_value" } /\ pc' \in { "edit_select", "edit_value" }

\* C25: get_field_edits leaves the map passed to it as it was: while the edit
\* session runs, the caller's map keeps every field's value and confidence.
C25_InputMapUnchanged ==
    [][ InsideEdits => extracted_data' = extracted_data ]_vars

\* C25 witness: get_field_edits has not returned yet, and the caller's map
\* already holds the replacement with confidence 100
C25_Witness ==
    /\ EditedState
    /\ extracted_data[field_name].value = new_value
    /\ extracted_data[field_name].confidence = 100
    /\ \E i \in 1..Len(ocr_data) :
          /\ ocr_data[i].text # new_value
          /\ ocr_data[i].confidence # 100
          /\ i = ValueIndexOf(field_name)

\* C26: an edit session neither adds nor removes a field: the map being
\* edited starts as the map passed in and has its keys at every step, the
\* returned map is the edited one, a step changes no field but the one
\* selected, and an empty replacement changes nothing at all.
C26_EditKeepsKeys ==
    /\ [][ (pc = "confirm" /\ pc' = "edit_select") => updated_data' = extracted_data ]_vars
    /\ [](pc \in { "edit_select", "edit_value" } =>
            DOMAIN updated_data = DOMAIN extracted_data)
    /\ [][ InsideEdits =>
             /\ DOMAIN updated_data' = DOMAIN updated_data
             /\ \A f \in DOMAIN updated_data :
                   (pc = "edit_select" \/ f # field_name \/ Strip(answer') = "")
                       => updated_data'[f] = updated_data[f] ]_vars
    /\ [][ (pc = "edit_select" /\ pc' = "confirm") =>
             extracted_data' = updated_data ]_vars

\* C26 witness: of two fields one was replaced earlier in the session, the
\* other was selected and given an empty replacement and is as parse gave it
C26_Witness ==
    /\ pc = "edit_select"
    /\ new_value = ""
    /\ field_name \in DOMAIN updated_data
    /\ updated_data[field_name] = parse(ocr_data)[field_name]
    /\ \E f \in DOMAIN updated_data :
          /\ f # field_name
          /\ updated_data[f].confidence = 100
          /\ updated_data[f] # parse(ocr_data)[f]

\* C27: DataSaver.save is called exactly when the operator accepted and then
\* chose one of the formats: control comes to the format prompt only by an
\* accept, from there to the filename prompt only by entry 1, 2 or 3, and from
\* there always to save; save is called with excel, json or csv, never into
\* its unknown-format branch; entry 0 returns False to the menu with no save.
C27_SaveNeedsFormat ==
    /\ [](pc = "save" =>
            /\ user_choice = "accept"
            /\ output_format \in { "excel", "json", "csv" }
            /\ save(output_format) # "unknown")
    /\ [][ (pc' = "format" /\ pc # "format") => (pc = "confirm" /\ user_choice' = "accept") ]_vars
    /\ [][ (pc = "format" /\ pc' # "interrupted") =>
             /\ (pc' = "filename") <=> (Strip(answer') \in { "1", "2", "3" })
             /\ (pc' = "menu") <=> (Strip(answer') = "0")
             /\ (pc' = "menu") => success' = "False" ]_vars
    /\ [][ (pc' = "save") => pc = "filename" ]_vars
    /\ [][ (pc = "filename" /\ pc' # "interrupted") => pc' = "save" ]_vars

\* C27 witness: the result was accepted, entry 0 was typed at the format
\* prompt, and run is back at the menu with the result False
C27_Witness ==
    /\ pc = "menu"
    /\ phase = "Accepted"
    /\ user_choice = "accept"
    /\ answer = "0"
    /\ success = "False"
    /\ output_format = "None"

\* the category rules, as the specification's table words them
NameRule(text) ==
    /\ \A k \in 1..Len(text) : CharAt(text, k) \in AlphaSet \cup { " ", "\t", "-", "'" }
    /\ Len(text) > 2

EmailRule(text) ==
    /\ \E k \in 1..Len(text) : CharAt(text, k) = "@"
    /\ \E k \in 1..Len(text) : CharAt(text, k) = "."

DateRule(text) == MatchesDate(text)

MarksRule(text) ==
    /\ \A k \in 1..Len(text) : CharAt(text, k) \in DigitSet \cup { ".", "%", " ", "\t" }
    /\ \E k \in 1..Len(text) : CharAt(text, k) \in DigitSet

NonEmptyRule(text) == ~TooShort(text)

UnclassifiedRule(text) == \E k \in 1..Len(text) : CharAt(text, k) \in AlphaSet \cup DigitSet

\* the rule the field f is said to be validated by
ClaimedRule(f, text) ==
    CASE f \in { "Student Name", "Father Name", "Mother Name" }   -> NameRule(text)
      [] f = "Contact"                                            -> ContactRule(text)
      [] f = "Email"                                              -> EmailRule(text)
      [] f = "Date"                                               -> DateRule(text)
      [] f = "Marks"                                              -> MarksRule(text)
      [] f \in { "Home Address", "School", "Group", "City" }      -> NonEmptyRule(text)
      [] f \in { "Roll Number", "Province" }                      -> UnclassifiedRule(text)

\* the validator agrees with the named rule on every text of the scan
ValidatedAsClaimed(f) ==
    \A text \in ScanTexts :
        _validate_value(text, f) <=> (~TooShort(text) /\ ClaimedRule(f, text))

\* C28: every catalog field is validated by the one category rule its name
\* selects: the three names by the name rule, Contact by the contact rule,
\* Email by the email rule, Date by the date rule, Marks by the marks rule,
\* Home Address, School, Group and City by the non-empty rule, Roll Number and
\* Province by the unclassified rule.
C28_OneRulePerField ==
    TokensReady => \A f \in DOMAIN FIELD_LABELS : ValidatedAsClaimed(f)

\* C28 witness: a roll-number label has a token with letters and digits
\* placed as its value, the unclassified rule accepts the token and the
\* validator, going by the contact rule, does not: Roll Number is absent,
\* while Province on the next line is extracted by the unclassified rule and
\* every other field is validated as said
C28_Witness ==
    /\ FreshlyParsed
    /\ LabelIndexOf("Roll Number") # 0
    /\ \E i \in Placed("Roll Number") :
          /\ ~TooShort(ocr_data[i].text)
          /\ UnclassifiedRule(ocr_data[i].text)
          /\ ~ContactRule(ocr_data[i].text)
          /\ ~_validate_value(ocr_data[i].text, "Roll Number")
    /\ "Roll Number" \notin DOMAIN extracted_data
    /\ "Province" \in DOMAIN extracted_data
    /\ \A f \in DOMAIN FIELD_LABELS \ { "Roll Number" } : ValidatedAsClaimed(f)

\* C29: in the map parse returns, the values of two different fields were
\* taken from tokens at different indices.
C29_DistinctValueTokens ==
    FreshlyParsed =>
        \A f, g \in DOMAIN extracted_data :
            f # g => ValueIndexOf(f) # ValueIndexOf(g)

\* C29 witness: one label token holds a keyword of Student Name and of Father
\* Name, both fields are in the result, and both values are the one token
\* that follows the label
C29_Witness ==
    /\ FreshlyParsed
    /\ { "Student Name", "Father Name" } \subseteq DOMAIN extracted_data
    /\ LabelIndexOf("Student Name") = LabelIndexOf("Father Name")
    /\ ValueIndexOf("Student Name") = ValueIndexOf("Father Name")
    /\ extracted_data["Student Name"] = extracted_data["Father Name"]
    /\ Cardinality({ i \in 1..Len(ocr_data) :
                       ocr_data[i].text = extracted_data["Student Name"].value }) = 1

\* the positions inside run_complete_pipeline
PipelinePcs ==
    { "preprocess", "ocr", "gate", "retry_prompt", "parse", "proceed_prompt", "confirm",
      "edit_select", "edit_value", "format", "filename", "save" }

\* C30: run_complete_pipeline returns False to the input menu and True, after
\* a save, to the scan-another prompt; a failed acquisition goes back to the
\* menu; run ends only by entry 3 at the menu, by an answer other than y at
\* the scan-another prompt, or by an interrupt at a prompt, and once ended it
\* takes no further step.
C30_LoopReturnsToMenu ==
    /\ [][ (pc \in PipelinePcs /\ pc' \notin PipelinePcs /\ pc' # "interrupted") =>
             \/ (success' = "False" /\ pc' = "menu")
             \/ (success' = "True" /\ pc' = "another" /\ pc = "save") ]_vars
    /\ [][ pc = "acquire" => pc' \in { "menu", "preprocess" } ]_vars
    /\ [][ (pc = "menu" /\ pc' # "interrupted") =>
             /\ pc' \in { "menu", "acquire", "exited" }
             /\ (pc' = "exited") <=> (Strip(answer') = "3") ]_vars
    /\ [][ (pc = "another" /\ pc' # "interrupted") =>
             /\ success = "True"
             /\ (pc' = "menu") <=> (Lower(Strip(answer')) = "y")
             /\ (pc' = "exited") <=> (Lower(Strip(answer')) # "y") ]_vars
    /\ [][ (pc' = "exited") => pc \in { "menu", "another" } ]_vars
    /\ [][ (pc' = "interrupted") => pc \in PromptPcs ]_vars
    /\ [][ pc \notin { "exited", "interrupted" } ]_vars

\* C30 witness: a result was accepted, a format and a name were chosen, the
\* saver failed, and run is back at the input menu with the result False
C30_Witness ==
    /\ pc = "menu"
    /\ success = "False"
    /\ phase = "Accepted"
    /\ answer = "form.json"
    /\ extracted_data = << >>

====
